---- MODULE Spec2Model ----
(***************************************************************************)
(* A model of ge_tracker_full.py: the module-level market tables           *)
(* (_mapping, _latest, _oneh), the subscriber table (clients), the         *)
(* refresher task (refresher_loop), one connection task per websocket      *)
(* (ws_endpoint) and the projection (build_payload).                       *)
(*                                                                         *)
(* The tasks are asyncio coroutines on one event loop: code between two    *)
(* awaits runs without interleaving, so every action below is the code     *)
(* from one suspension point to the next.                                  *)
(*                                                                         *)
(* Python values are records [k, n, s]: None, a number, or a string (a     *)
(* sequence of one-character strings).  Prices are integers; the price     *)
(* sets are chosen so that profit_pct is an exact integer.  Python dicts   *)
(* whose iteration order matters are sequences of [k, v] entries in        *)
(* insertion order.  Item ids are the integers the JSON keys spell.        *)
(***************************************************************************)
EXTENDS Integers, Sequences, FiniteSets, TLC

\* ------------------------------------------------------------------------
\* Bounds of the model
\* ------------------------------------------------------------------------
MaxClients == 2

MaxCycles == 2

MaxMsgs == 1

\* ------------------------------------------------------------------------
\* Program constants
\* ------------------------------------------------------------------------
DEFAULT_MAX_RESULTS == 30

DEFAULT_MIN_VOLUME == 10

\* ------------------------------------------------------------------------
\* Python values
\* ------------------------------------------------------------------------
None == [k |-> "none", n |-> 0, s |-> <<>>]

Num(i) == [k |-> "num", n |-> i, s |-> <<>>]

Str(q) == [k |-> "str", n |-> 0, s |-> q]

\* bool(v): None, 0 and "" are falsy
Truthy(v) ==
  CASE v.k = "none" -> FALSE
    [] v.k = "num" -> v.n # 0
    [] OTHER -> v.s # <<>>

DigitOf ==
  [c \in {"0", "1", "2", "3", "4", "5", "6", "7", "8", "9"} |->
     CASE c = "0" -> 0 [] c = "1" -> 1 [] c = "2" -> 2 [] c = "3" -> 3
       [] c = "4" -> 4 [] c = "5" -> 5 [] c = "6" -> 6 [] c = "7" -> 7
       [] c = "8" -> 8 [] OTHER -> 9]

IsDigits(q) == q # <<>> /\ \A i \in 1..Len(q) : q[i] \in DOMAIN DigitOf

RECURSIVE ParseDigits(_)
ParseDigits(q) ==
  IF q = <<>> THEN 0
  ELSE 10 * ParseDigits(SubSeq(q, 1, Len(q) - 1)) + DigitOf[q[Len(q)]]

\* float(v) / int(v) succeed on a number and on a string of digits; they
\* raise TypeError on None and ValueError on any other string.
CanCoerce(v) == v.k = "num" \/ (v.k = "str" /\ IsDigits(v.s))

Coerce(v) == IF v.k = "num" THEN v.n ELSE ParseDigits(v.s)

ffloat(v) == IF CanCoerce(v) THEN Num(Coerce(v)) ELSE None

\* str.lower() on the letters the model's names use
LowerOf == [c \in {"C", "O", "R"} |->
             CASE c = "C" -> "c" [] c = "O" -> "o" [] OTHER -> "r"]

Lower(q) == [i \in 1..Len(q) |-> IF q[i] \in DOMAIN LowerOf THEN LowerOf[q[i]] ELSE q[i]]

\* needle in hay (substring)
Contains(hay, needle) ==
  \E i \in 0..(Len(hay) - Len(needle)) : SubSeq(hay, i + 1, i + Len(needle)) = needle

IdStr(i) == <<CHOOSE c \in DOMAIN DigitOf : DigitOf[c] = i>>

\* ------------------------------------------------------------------------
\* Python dicts in insertion order
\* ------------------------------------------------------------------------
DictKeys(d) == [i \in 1..Len(d) |-> d[i].k]

KeySet(d) == {d[i].k : i \in 1..Len(d)}

DictGet(d, key, default) ==
  IF key \in KeySet(d) THEN (d[CHOOSE i \in 1..Len(d) : d[i].k = key]).v ELSE default

\* d[key] = value: in place for a key of d, appended otherwise
DictSet(d, key, value) ==
  IF key \in KeySet(d)
  THEN [i \in 1..Len(d) |-> IF d[i].k = key THEN [k |-> key, v |-> value] ELSE d[i]]
  ELSE Append(d, [k |-> key, v |-> value])

RECURSIVE DictUpdate(_, _)
DictUpdate(d, e) ==
  IF e = <<>> THEN d ELSE DictUpdate(DictSet(d, e[1].k, e[1].v), Tail(e))

\* d.pop(key, None)
DictPop(d, key) == SelectSeq(d, LAMBDA x : x.k # key)

\* f.get(key, default) on a dict whose order is never read
FGet(f, key, default) == IF key \in DOMAIN f THEN f[key] ELSE default

\* ------------------------------------------------------------------------
\* Strings of the program
\* ------------------------------------------------------------------------
S_hourly == <<"h", "o", "u", "r", "l", "y">>

S_daily == <<"d", "a", "i", "l", "y">>

S_profit == <<"p", "r", "o", "f", "i", "t">>

S_profit_pct == <<"p", "r", "o", "f", "i", "t", "_", "p", "c", "t">>

S_cost == <<"c", "o", "s", "t">>

S_mining == <<"m", "i", "n", "i", "n", "g">>

S_cooking == <<"c", "o", "o", "k", "i", "n", "g">>

\* SKILL_TAGS, cut down to two skills with one or two keywords each
SKILL_TAGS ==
  [sk \in {S_mining, S_cooking} |->
     IF sk = S_mining THEN {<<"c", "o", "a", "l">>, <<"o", "r", "e">>}
     ELSE {<<"r", "a", "w">>}]

FilterKeys ==
  {"skill", "max_price", "min_profit_gp", "min_profit_pct", "min_volume",
   "sort", "max_results", "search", "volume_mode"}

\* ------------------------------------------------------------------------
\* Helpers of the projection
\* ------------------------------------------------------------------------
buy_price(info) == ffloat(FGet(info, "low", None))

sell_price(info) == ffloat(FGet(info, "high", None))

profit_gp(b, s) == IF Truthy(b) /\ Truthy(s) THEN Num(s.n - b.n) ELSE None

profit_pct(b, s) ==
  IF Truthy(b) /\ Truthy(s) /\ b.n # 0 THEN Num(((s.n - b.n) * 100) \div b.n) ELSE None

\* (ffloat(oneh.get(item_id, {}).get(field)) or 0)
VolPart(oneh, item_id, field) ==
  LET v == ffloat(FGet(DictGet(oneh, item_id, <<>>), field, None))
  IN IF Truthy(v) THEN v.n ELSE 0

Volume(oneh, item_id, filters) ==
  LET vol == VolPart(oneh, item_id, "highPriceVolume") + VolPart(oneh, item_id, "lowPriceVolume")
  IN IF FGet(filters, "volume_mode", None) = Str(S_daily) THEN vol * 24 ELSE vol

\* One line of the try block: the item is dropped when the bound is truthy
\* and either float() raises (except: continue) or the comparison says so.
MaxBoundDrops(filters, key, x) ==
  LET v == FGet(filters, key, None)
  IN Truthy(v) /\ (~CanCoerce(v) \/ x > Coerce(v))

MinBoundDrops(filters, key, x) ==
  LET v == FGet(filters, key, None)
  IN Truthy(v) /\ (~CanCoerce(v) \/ x < Coerce(v))

BoundsDrop(filters, b, gp, pc, vol) ==
  \/ MaxBoundDrops(filters, "max_price", b)
  \/ MinBoundDrops(filters, "min_profit_gp", gp)
  \/ MinBoundDrops(filters, "min_profit_pct", pc)
  \/ MinBoundDrops(filters, "min_volume", vol)

ItemName(mapping, item_id) == FGet(DictGet(mapping, item_id, <<>>), "name", IdStr(item_id))

SkillDrops(filters, name) ==
  LET sk == FGet(filters, "skill", None)
  IN /\ Truthy(sk)
     /\ sk.k = "str"
     /\ sk.s \in DOMAIN SKILL_TAGS
     /\ ~\E tag \in SKILL_TAGS[sk.s] : Contains(Lower(name), Lower(tag))

\* filters["search"].lower() raises AttributeError on a truthy non-string
SearchRaises(filters) ==
  LET q == FGet(filters, "search", None) IN Truthy(q) /\ q.k # "str"

SearchDrops(filters, name) ==
  LET q == FGet(filters, "search", None)
  IN Truthy(q) /\ q.k = "str" /\ ~Contains(Lower(name), Lower(q.s))

\* The body of the loop over latest.items() for one entry:
\* "skip" (continue), "raise", or "row" with the appended result.
ItemOutcome(mapping, oneh, filters, item_id, price_info) ==
  LET b == buy_price(price_info)
      s == sell_price(price_info)
      gp == profit_gp(b, s)
      pc == profit_pct(b, s)
      vol == Volume(oneh, item_id, filters)
      name == ItemName(mapping, item_id)
      skip == [kind |-> "skip", row |-> <<>>]
  IN IF None \in {b, s, gp, pc} THEN skip
     ELSE IF BoundsDrop(filters, b.n, gp.n, pc.n, vol) THEN skip
     ELSE IF SkillDrops(filters, name) THEN skip
     ELSE IF SearchRaises(filters) THEN [kind |-> "raise", row |-> <<>>]
     ELSE IF SearchDrops(filters, name) THEN skip
     ELSE [kind |-> "row",
           row |-> [id |-> item_id, name |-> name, buy |-> b.n, sell |-> s.n,
                    profit |-> gp.n, profit_pct |-> pc.n, volume |-> vol]]

\* {"cost": "buy", "profit_pct": "profit_pct"}.get(filters.get("sort"), "profit")
SortKey(filters) ==
  LET v == FGet(filters, "sort", None)
  IN CASE v = Str(S_cost) -> "buy"
       [] v = Str(S_profit_pct) -> "profit_pct"
       [] OTHER -> "profit"

\* InsertSorted placing a row before the rows of equal key
InsertSorted_strict(sorted, x, key, reverse) ==
  LET n == Cardinality({i \in 1..Len(sorted) :
                          IF reverse THEN sorted[i][key] > x[key]
                          ELSE sorted[i][key] < x[key]})
  IN SubSeq(sorted, 1, n) \o <<x>> \o SubSeq(sorted, n + 1, Len(sorted))

\* list.sort(key=..., reverse=...): stable in both directions
InsertSorted(sorted, x, key, reverse) ==
  LET n == Cardinality({i \in 1..Len(sorted) :
                          IF reverse THEN sorted[i][key] >= x[key]
                          ELSE sorted[i][key] <= x[key]})
  IN SubSeq(sorted, 1, n) \o <<x>> \o SubSeq(sorted, n + 1, Len(sorted))

RECURSIVE SortBy(_, _, _)
SortBy(rows, key, reverse) ==
  IF rows = <<>> THEN <<>>
  ELSE InsertSorted(SortBy(SubSeq(rows, 1, Len(rows) - 1), key, reverse),
                    rows[Len(rows)], key, reverse)

\* results[:n]
Slice(rows, n) ==
  IF n >= 0 THEN SubSeq(rows, 1, IF n < Len(rows) THEN n ELSE Len(rows))
  ELSE SubSeq(rows, 1, IF Len(rows) + n > 0 THEN Len(rows) + n ELSE 0)

Raised == [type |-> "raise", mode |-> None, items |-> <<>>]

\* build_payload on the copies it takes of the three tables
BuildPayload(mapping, latest, oneh, filters) ==
  LET outs == [i \in 1..Len(latest) |->
                 ItemOutcome(mapping, oneh, filters, latest[i].k, latest[i].v)]
      kept == SelectSeq(outs, LAMBDA o : o.kind = "row")
      results == [i \in 1..Len(kept) |-> kept[i].row]
      key == SortKey(filters)
      mr == FGet(filters, "max_results", Num(DEFAULT_MAX_RESULTS))
  IN IF (\E i \in 1..Len(outs) : outs[i].kind = "raise") \/ ~CanCoerce(mr) THEN Raised
     ELSE [type |-> "update",
           mode |-> FGet(filters, "volume_mode", Str(S_hourly)),
           items |-> Slice(SortBy(results, key, key # "buy"), Coerce(mr))]

\* ------------------------------------------------------------------------
\* What the external collaborators can hand to the program
\* ------------------------------------------------------------------------
WS == 1..MaxClients

N_Coal == <<"C", "o", "a", "l">>

N_Ore == <<"O", "r", "e">>

Entry(key, value) == [k |-> key, v |-> value]

Price(low, high) == [low |-> low, high |-> high]

Vol(h, l) == [highPriceVolume |-> Num(h), lowPriceVolume |-> Num(l)]

\* fetch_mapping(): {str(d["id"]): d for d in data if "id" in d}
MappingFetches ==
  { <<Entry(1, [name |-> N_Coal]), Entry(2, [name |-> N_Ore])>> }

\* fetch_latest(): item id -> {low, high}
LatestFetches ==
  { <<Entry(1, Price(Num(100), Num(150))), Entry(2, Price(Num(50), Num(40)))>>,
    <<Entry(2, Price(Num(50), Num(100)))>> }

\* fetch_oneh(): item id -> {highPriceVolume, lowPriceVolume}
OnehFetches ==
  { <<Entry(1, Vol(10, 10)), Entry(2, Vol(5, 5))>> }

\* Inbound websocket text: unparseable, or the JSON object it spells
BadText == [ok |-> FALSE, obj |-> <<>>]

Json(m) == [ok |-> TRUE, obj |-> m]

T_set_filters == Str(<<"s", "e", "t", "_", "f", "i", "l", "t", "e", "r", "s">>)

T_ping == Str(<<"p", "i", "n", "g">>)

T_other == Str(<<"x">>)

Inbound ==
  { BadText,
    Json([type |-> T_ping]),
    Json([type |-> T_other]),
    \* everything the page sends, with a numeric bound of 0
    Json([type |-> T_set_filters, skill |-> None, max_price |-> None,
          min_profit_gp |-> Num(0), min_profit_pct |-> None, min_volume |-> Str(<<"5">>),
          sort |-> Str(S_cost), max_results |-> Num(1), search |-> Str(<<>>),
          volume_mode |-> Str(S_daily)]),
    \* a partial update that leaves max_results out
    Json([type |-> T_set_filters, sort |-> Str(S_cost)]),
    \* a partial update that carries max_results
    Json([type |-> T_set_filters, max_results |-> Num(1)]) }

\* default_filters without its volume floor
default_filters_nofloor ==
  [skill |-> None, max_price |-> None, min_profit_gp |-> None,
   min_profit_pct |-> None, min_volume |-> None,
   sort |-> Str(S_profit), max_results |-> Num(DEFAULT_MAX_RESULTS),
   search |-> Str(<<>>), volume_mode |-> Str(S_hourly)]

default_filters ==
  [skill |-> None, max_price |-> None, min_profit_gp |-> None,
   min_profit_pct |-> None, min_volume |-> Num(DEFAULT_MIN_VOLUME),
   sort |-> Str(S_profit), max_results |-> Num(DEFAULT_MAX_RESULTS),
   search |-> Str(<<>>), volume_mode |-> Str(S_hourly)]

\* ------------------------------------------------------------------------
\* State
\* ------------------------------------------------------------------------
VARIABLES
  _mapping, _latest, _oneh,   \* the three market tables
  history,                    \* item id -> list of {ts, buy, sell}
  clients,                    \* websocket -> filters, in insertion order
  rpc,                        \* where refresher_loop is suspended
  cycle,                      \* cycles started (time.time() of the cycle)
  latest_new,                 \* refresher_loop's local
  todo,                       \* what is left of list(clients) in the for loop
  cur,                        \* the ws the refresher is sending to (0: none)
  rpayload,                   \* the payload the refresher is sending
  wpc,                        \* where each ws_endpoint task is
  pending,                    \* the payload each ws_endpoint is sending
  msgs,                       \* messages each websocket has received
  chan,                       \* the client side of each websocket
  ver,                        \* history: the cycle that last wrote each table
  pre,                        \* history: the tables when this cycle started
  outcome,                    \* history: how this cycle ended
  bstart,                     \* history: list(clients) of this cycle's broadcast
  bdelivered,                 \* history: who that broadcast delivered to
  bfailed,                    \* history: where that broadcast raised
  cause,                      \* history: why each ws_endpoint task ended
  wire                        \* per websocket, in the order written: the
                              \* projections whose send_text has not returned

storeVars == <<_mapping, _latest, _oneh, history>>

refVars == <<rpc, cycle, latest_new, todo, cur, rpayload>>

taskVars == <<wpc, pending, msgs>>

cycleHist == <<pre, outcome>>

bcastHist == <<bstart, bdelivered, bfailed>>

vars == <<storeVars, clients, refVars, taskVars, chan, ver, cycleHist, bcastHist, cause, wire>>

NoFail == [ws |-> 0, why |-> "none"]

EmptyTables == [mapping |-> <<>>, latest |-> <<>>, oneh |-> <<>>]

Tables == [mapping |-> _mapping, latest |-> _latest, oneh |-> _oneh]

Init ==
  /\ _mapping = <<>> /\ _latest = <<>> /\ _oneh = <<>>
  /\ history = <<>>
  /\ clients = <<>>
  /\ rpc = "top" /\ cycle = 0 /\ latest_new = <<>>
  /\ todo = <<>> /\ cur = 0 /\ rpayload = Raised
  /\ wpc = [w \in WS |-> "new"]
  /\ pending = [w \in WS |-> Raised]
  /\ msgs = [w \in WS |-> 0]
  /\ chan = [w \in WS |-> "open"]
  /\ ver = [mapping |-> 0, latest |-> 0, oneh |-> 0]
  /\ pre = EmptyTables
  /\ outcome = "none"
  /\ bstart = <<>> /\ bdelivered = {} /\ bfailed = NoFail
  /\ cause = [w \in WS |-> "none"]
  /\ wire = [w \in WS |-> <<>>]

\* WireWrite with the new text overtaking what is still being sent
WireWrite_front(q, by, v, m) == <<[by |-> by, ver |-> v, m |-> m]>> \o q

\* ws.send_text(json.dumps(await build_payload(...))): build_payload has no
\* await of its own, so the text is handed to the websocket in the step that
\* computes it; `by` is the coroutine that sends, `v` and `m` are the table
\* versions and the number of messages of ws the projection was computed at
WireWrite(q, by, v, m) == Append(q, [by |-> by, ver |-> v, m |-> m])

\* The send_text of `by` has returned or raised
WireDone(q, by) == SelectSeq(q, LAMBDA e : e.by # by)

\* ------------------------------------------------------------------------
\* ws_endpoint: one task per websocket
\* ------------------------------------------------------------------------
Pong == [type |-> "pong", mode |-> None, items |-> <<>>]

\* {**clients.get(ws, {}), **{k: msg.get(k) for k in default_filters}}
MergeFilters(old, m) ==
  [k \in (DOMAIN old) \cup FilterKeys |->
     IF k \in FilterKeys THEN FGet(m, k, None) ELSE old[k]]

\* The task is over: by the except clause ("done") or by an exception that
\* leaves ws_endpoint ("crashed"); the server then closes the connection.
TaskEnds(w, how, why) ==
  /\ wpc' = [wpc EXCEPT ![w] = how]
  /\ pending' = [pending EXCEPT ![w] = Raised]
  /\ cause' = [cause EXCEPT ![w] = why]
  /\ chan' = [chan EXCEPT ![w] = "closed"]
  /\ wire' = [wire EXCEPT ![w] = WireDone(@, "task")]

\* accept() returns; register; build the first payload; suspend in send_text
Connect(w) ==
  /\ wpc[w] = "new"
  /\ clients' = DictSet(clients, w, default_filters)
  /\ LET p == BuildPayload(_mapping, _latest, _oneh, default_filters)
     IN IF p = Raised
        THEN TaskEnds(w, "crashed", "invalid_filter")
        ELSE /\ wpc' = [wpc EXCEPT ![w] = "send_init"]
             /\ pending' = [pending EXCEPT ![w] = p]
             /\ wire' = [wire EXCEPT ![w] = WireWrite(@, "task", ver, msgs[w])]
             /\ UNCHANGED <<cause, chan>>
  /\ UNCHANGED <<storeVars, refVars, msgs, ver, cycleHist, bcastHist>>

Sending(w) == wpc[w] \in {"send_init", "send_update", "send_pong"}

\* send_text returns: back to receive_text
TSendOk(w) ==
  /\ Sending(w)
  /\ chan[w] = "open"
  /\ wpc' = [wpc EXCEPT ![w] = "recv"]
  /\ pending' = [pending EXCEPT ![w] = Raised]
  /\ wire' = [wire EXCEPT ![w] = WireDone(@, "task")]
  /\ UNCHANGED <<storeVars, clients, refVars, msgs, chan, ver, cycleHist, bcastHist, cause>>

\* send_text raises on a closed connection.  Line 214 is outside the try;
\* inside it only WebSocketDisconnect is caught, and which exception the
\* transport raises depends on its version.
TSendFail(w) ==
  /\ Sending(w)
  /\ chan[w] = "closed"
  /\ \E exc \in {"WebSocketDisconnect", "RuntimeError"} :
       IF wpc[w] # "send_init" /\ exc = "WebSocketDisconnect"
       THEN clients' = DictPop(clients, w) /\ TaskEnds(w, "done", "disconnect")
       ELSE clients' = clients /\ TaskEnds(w, "crashed", "disconnect")
  /\ UNCHANGED <<storeVars, refVars, msgs, ver, cycleHist, bcastHist>>

\* receive_text raises WebSocketDisconnect: the except clause unregisters
RecvDisconnect(w) ==
  /\ wpc[w] = "recv"
  /\ chan[w] = "closed"
  /\ clients' = DictPop(clients, w)
  /\ TaskEnds(w, "done", "disconnect")
  /\ UNCHANGED <<storeVars, refVars, msgs, ver, cycleHist, bcastHist>>

\* receive_text returns `text`: json.loads, then the branch on msg["type"]
RecvTextWith(w, text) ==
  /\ wpc[w] = "recv"
  /\ chan[w] # "closed"
  /\ msgs[w] < MaxMsgs
  /\ msgs' = [msgs EXCEPT ![w] = @ + 1]
  /\ IF ~text.ok
     THEN TaskEnds(w, "crashed", "malformed") /\ UNCHANGED clients
     ELSE IF FGet(text.obj, "type", None) = T_set_filters
     THEN LET filters == MergeFilters(DictGet(clients, w, <<>>), text.obj)
              p == BuildPayload(_mapping, _latest, _oneh, filters)
          IN /\ clients' = DictSet(clients, w, filters)
             /\ IF p = Raised
                THEN TaskEnds(w, "crashed", "invalid_filter")
                ELSE /\ wpc' = [wpc EXCEPT ![w] = "send_update"]
                     /\ pending' = [pending EXCEPT ![w] = p]
                     /\ wire' = [wire EXCEPT ![w] = WireWrite(@, "task", ver, msgs'[w])]
                     /\ UNCHANGED <<cause, chan>>
     ELSE IF FGet(text.obj, "type", None) = T_ping
     THEN /\ wpc' = [wpc EXCEPT ![w] = "send_pong"]
          /\ pending' = [pending EXCEPT ![w] = Pong]
          /\ UNCHANGED <<clients, cause, chan, wire>>
     ELSE UNCHANGED <<clients, cause, chan, wpc, pending, wire>>
  /\ UNCHANGED <<storeVars, refVars, ver, cycleHist, bcastHist>>

RecvText(w) == \E text \in Inbound : RecvTextWith(w, text)

\* ------------------------------------------------------------------------
\* The client side of a websocket
\* ------------------------------------------------------------------------
Connected(w) == wpc[w] \in {"send_init", "send_update", "send_pong", "recv"}

ClientClose(w) ==
  /\ Connected(w)
  /\ chan[w] # "closed"
  /\ chan' = [chan EXCEPT ![w] = "closed"]
  /\ UNCHANGED <<storeVars, clients, refVars, taskVars, ver, cycleHist, bcastHist, cause, wire>>

\* The client stops reading: a send_text to it does not return.  Only a
\* send_text in progress can tell, so the client is let to stop reading
\* while one is.
ClientSlow(w) ==
  /\ Sending(w) \/ (rpc = "send" /\ cur = w)
  /\ chan[w] = "open"
  /\ chan' = [chan EXCEPT ![w] = "slow"]
  /\ UNCHANGED <<storeVars, clients, refVars, taskVars, ver, cycleHist, bcastHist, cause, wire>>

ClientResume(w) ==
  /\ chan[w] = "slow"
  /\ chan' = [chan EXCEPT ![w] = "open"]
  /\ UNCHANGED <<storeVars, clients, refVars, taskVars, ver, cycleHist, bcastHist, cause, wire>>

\* CycleRaises with the exception leaving refresher_loop
CycleRaises_dies(how) ==
  /\ rpc' = "dead"
  /\ outcome' = how
  /\ todo' = <<>> /\ cur' = 0 /\ rpayload' = Raised

\* ------------------------------------------------------------------------
\* refresher_loop
\* ------------------------------------------------------------------------
\* except Exception: log.exception(...); then the sleep at the loop's end
CycleRaises(how) ==
  /\ rpc' = "sleep"
  /\ outcome' = how
  /\ todo' = <<>> /\ cur' = 0 /\ rpayload' = Raised

\* while True: the try block starts and suspends in fetch_mapping()
BeginCycle ==
  /\ rpc = "top"
  /\ cycle < MaxCycles
  /\ cycle' = cycle + 1
  /\ rpc' = "fetch_mapping"
  /\ pre' = Tables
  /\ outcome' = "running"
  /\ UNCHANGED wire
  /\ UNCHANGED <<storeVars, clients, latest_new, todo, cur, rpayload, taskVars, chan, ver,
                 bcastHist, cause>>

\* _mapping.update(await fetch_mapping()); then suspends in fetch_latest()
FetchMappingDone ==
  /\ rpc = "fetch_mapping"
  /\ \E data \in MappingFetches :
       /\ _mapping' = DictUpdate(_mapping, data)
       /\ ver' = [ver EXCEPT !.mapping = cycle]
  /\ rpc' = "fetch_latest"
  /\ UNCHANGED wire
  /\ UNCHANGED <<_latest, _oneh, history, clients, cycle, latest_new, todo, cur, rpayload,
                 taskVars, chan, cycleHist, bcastHist, cause>>

\* latest_new = await fetch_latest(); _latest.update(latest_new); then
\* suspends in fetch_oneh()
FetchLatestDone ==
  /\ rpc = "fetch_latest"
  /\ \E data \in LatestFetches :
       /\ latest_new' = data
       /\ _latest' = DictUpdate(_latest, data)
       /\ ver' = [ver EXCEPT !.latest = cycle]
  /\ rpc' = "fetch_oneh"
  /\ UNCHANGED wire
  /\ UNCHANGED <<_mapping, _oneh, history, clients, cycle, todo, cur, rpayload,
                 taskVars, chan, cycleHist, bcastHist, cause>>

\* Any of the three fetches raises (the request fails, the body is no JSON)
FetchFails ==
  /\ rpc \in {"fetch_mapping", "fetch_latest", "fetch_oneh"}
  /\ CycleRaises("fetch_failed")
  /\ UNCHANGED wire
  /\ UNCHANGED <<storeVars, clients, cycle, latest_new, taskVars, chan, ver, pre,
                 bcastHist, cause>>

\* history.setdefault(item_id, []).append({...}) for the items of latest_new
\* that have both prices
RECURSIVE HistoryAppend(_, _, _)
HistoryAppend(h, entries, now) ==
  IF entries = <<>> THEN h
  ELSE LET e == entries[1]
           b == buy_price(e.v)
           s == sell_price(e.v)
       IN IF b = None \/ s = None THEN HistoryAppend(h, Tail(entries), now)
          ELSE HistoryAppend(
                 DictSet(h, e.k, Append(DictGet(h, e.k, <<>>),
                                        [ts |-> now, buy |-> b.n, sell |-> s.n])),
                 Tail(entries), now)

\* The for loop over list(clients) from `list` on, up to its next await or
\* to the end of the try block.  clients[ws] raises KeyError for a ws that
\* was popped since the list was taken; build_payload may raise.
Iterate(list) ==
  LET returned == [wire EXCEPT ![cur] = WireDone(@, "refresher")]
  IN IF list = <<>>
     THEN /\ rpc' = "sleep" /\ outcome' = "ok"
          /\ todo' = <<>> /\ cur' = 0 /\ rpayload' = Raised
          /\ wire' = returned
          /\ UNCHANGED bfailed
     ELSE LET ws == Head(list)
          IN IF ws \notin KeySet(clients)
             THEN /\ CycleRaises("broadcast_failed")
                  /\ bfailed' = [ws |-> ws, why |-> "keyerror"]
                  /\ wire' = returned
             ELSE LET p == BuildPayload(_mapping', _latest', _oneh', DictGet(clients, ws, <<>>))
                  IN IF p = Raised
                     THEN /\ CycleRaises("broadcast_failed")
                          /\ bfailed' = [ws |-> ws, why |-> "payload"]
                          /\ wire' = returned
                     ELSE /\ rpc' = "send" /\ cur' = ws /\ rpayload' = p
                          /\ todo' = Tail(list)
                          /\ wire' = [returned EXCEPT ![ws] = WireWrite(@, "refresher", ver', msgs[ws])]
                          /\ UNCHANGED <<bfailed, outcome>>

\* _oneh.update(await fetch_oneh()); the history loop; the for loop up to
\* its first send_text
FetchOnehDone ==
  /\ rpc = "fetch_oneh"
  /\ \E data \in OnehFetches :
       /\ _oneh' = DictUpdate(_oneh, data)
       /\ ver' = [ver EXCEPT !.oneh = cycle]
  /\ history' = HistoryAppend(history, latest_new, cycle)
  /\ UNCHANGED <<_mapping, _latest, clients>>
  /\ bstart' = DictKeys(clients)
  /\ bdelivered' = {}
  /\ IF clients = <<>>
     THEN /\ rpc' = "sleep" /\ outcome' = "ok"
          /\ todo' = <<>> /\ cur' = 0 /\ rpayload' = Raised
          /\ bfailed' = NoFail
          /\ UNCHANGED wire
     ELSE LET ws == Head(DictKeys(clients))
              p == BuildPayload(_mapping', _latest', _oneh', DictGet(clients, ws, <<>>))
          IN IF p = Raised
             THEN /\ CycleRaises("broadcast_failed")
                  /\ bfailed' = [ws |-> ws, why |-> "payload"]
                  /\ UNCHANGED wire
             ELSE /\ rpc' = "send" /\ cur' = ws /\ rpayload' = p
                  /\ wire' = [wire EXCEPT ![ws] = WireWrite(@, "refresher", ver', msgs[ws])]
                  /\ todo' = Tail(DictKeys(clients))
                  /\ bfailed' = NoFail
                  /\ UNCHANGED outcome
  /\ UNCHANGED <<cycle, latest_new, taskVars, chan, pre, cause>>

\* The refresher's send_text returns: the next iteration of the for loop
RSendOk ==
  /\ rpc = "send"
  /\ chan[cur] = "open"
  /\ bdelivered' = bdelivered \cup {cur}
  /\ UNCHANGED <<storeVars, clients, ver>>
  /\ Iterate(todo)
  /\ UNCHANGED <<cycle, latest_new, taskVars, chan, pre, bstart, cause>>

\* The refresher's send_text raises: the except clause ends the try block
RSendFail ==
  /\ rpc = "send"
  /\ chan[cur] = "closed"
  /\ CycleRaises("broadcast_failed")
  /\ bfailed' = [ws |-> cur, why |-> "send"]
  /\ wire' = [wire EXCEPT ![cur] = WireDone(@, "refresher")]
  /\ UNCHANGED <<storeVars, clients, cycle, latest_new, taskVars, chan, ver, pre,
                 bstart, bdelivered, cause>>

\* await asyncio.sleep(FETCH_INTERVAL_SECONDS) returns
SleepDone ==
  /\ rpc = "sleep"
  /\ rpc' = "top"
  /\ pre' = EmptyTables /\ outcome' = "none"
  /\ bstart' = <<>> /\ bdelivered' = {} /\ bfailed' = NoFail
  /\ UNCHANGED wire
  /\ UNCHANGED <<storeVars, clients, cycle, latest_new, todo, cur, rpayload, taskVars, chan,
                 ver, cause>>

RefresherStep ==
  \/ BeginCycle
  \/ FetchMappingDone
  \/ FetchLatestDone
  \/ FetchOnehDone
  \/ FetchFails
  \/ RSendOk
  \/ RSendFail
  \/ SleepDone

Next ==
  \/ RefresherStep
  \/ \E w \in WS :
       \/ Connect(w)
       \/ TSendOk(w)
       \/ TSendFail(w)
       \/ RecvDisconnect(w)
       \/ RecvText(w)
       \/ ClientClose(w)
       \/ ClientSlow(w)
       \/ ClientResume(w)

Spec == Init /\ [][Next]_vars

\* ------------------------------------------------------------------------
\* Properties
\* ------------------------------------------------------------------------
Range(q) == {q[i] : i \in 1..Len(q)}

IsSetFilters(text) == text.ok /\ FGet(text.obj, "type", None) = T_set_filters

FiltersOf(table, w) == DictGet(table, w, <<>>)

\* A subscriber whose task runs, whose channel is open and who is registered
Healthy(w) == Connected(w) /\ chan[w] = "open" /\ w \in KeySet(clients)

\* A step in which build_payload takes its copies of the three tables
ReadsTables ==
  \/ \E w \in WS : Connect(w)
  \/ \E w \in WS : \E text \in Inbound : IsSetFilters(text) /\ RecvTextWith(w, text)
  \/ FetchOnehDone /\ clients # <<>>
  \/ RSendOk /\ todo # <<>> /\ Head(todo) \in KeySet(clients)

\* C1: every projection is computed from three tables written by the same
\* refresh cycle, never from a mix of cycles.
C1_ConsistentTriple ==
  [][ReadsTables => (ver'.mapping = ver'.latest /\ ver'.latest = ver'.oneh)]_vars

\* C2: when a fetch fails, the three tables are what they were when the
\* cycle started.
C2_FetchFailureLeavesStore == outcome = "fetch_failed" => Tables = pre

\* C3: when a delivery of a broadcast fails, every other subscriber of that
\* broadcast that is still connected has been delivered its projection by
\* the time the broadcast is over.
C3_FailureIsolation ==
  (rpc = "sleep" /\ bfailed.why = "send") =>
    \A w \in Range(bstart) \ {bfailed.ws} : Healthy(w) => w \in bdelivered

\* C4: when a delivery of a broadcast fails, the subscriber it failed for is
\* out of the subscriber table once the broadcast is over.
C4_BrokenSubscriberRemoved ==
  (rpc = "sleep" /\ bfailed.why = "send") => bfailed.ws \notin KeySet(clients)

\* C5: a set_filters message leaves every filter field it omits at the
\* value the subscriber's config had before.
C5_OmittedFieldsRetained ==
  [][\A w \in WS : \A text \in Inbound :
       (IsSetFilters(text) /\ RecvTextWith(w, text)) =>
         \A key \in FilterKeys \ DOMAIN text.obj :
           FiltersOf(clients', w)[key] = FiltersOf(clients, w)[key]]_vars

\* C6: a subscriber whose connection task has ended by a disconnect is not
\* in the subscriber table.
C6_UnregisteredBeforeExit ==
  \A w \in WS :
    (wpc[w] \in {"done", "crashed"} /\ cause[w] = "disconnect") => w \notin KeySet(clients)

\* C7: while a delivery of the broadcast to a slow subscriber does not
\* complete, the refresher can still take a step (deliver to the next
\* subscriber, end the broadcast) whenever another subscriber of the
\* broadcast waits for its delivery.
C7_SlowSubscriberDoesNotStall ==
  (rpc = "send" /\ chan[cur] = "slow" /\ \E w \in Range(todo) : Healthy(w))
    => ENABLED RefresherStep

\* C8: a set_filters message whose max_results cannot be coerced to an
\* integer leaves the subscriber table as it was.
C8_InvalidMaxResultsRejected ==
  [][\A w \in WS : \A text \in Inbound :
       (IsSetFilters(text) /\ ~CanCoerce(FGet(text.obj, "max_results", None))
          /\ RecvTextWith(w, text))
       => clients' = clients]_vars

Errored(w) == cause[w] \in {"malformed", "invalid_filter"}

\* C9: at the end of a cycle whose fetches succeeded, with a connection
\* that got an unparseable message or supplied an invalid filter and with
\* every other subscriber of the broadcast connected, each of those others
\* has been delivered its projection.
C9_ErrorsContained ==
  (/\ rpc = "sleep"
   /\ outcome \in {"ok", "broadcast_failed"}
   /\ \E e \in Range(bstart) : Errored(e)
   /\ \A w \in Range(bstart) : ~Errored(w) => Healthy(w))
  => \A w \in Range(bstart) : ~Errored(w) => w \in bdelivered

\* ------------------------------------------------------------------------
\* The projection alone: line 258, build_payload(clients[ws]), for one
\* registered subscriber, over drawn tables and a drawn filter config (any
\* config of nine fields is what a set_filters message of nine fields
\* stores)
\* ------------------------------------------------------------------------
ProjLatest ==
  { <<Entry(1, Price(Num(100), Num(150))), Entry(2, Price(Num(50), Num(40)))>>,
    <<Entry(3, Price(Num(50), Num(100))), Entry(1, Price(Num(100), Num(150))),
      Entry(2, Price(Num(50), Num(40))), Entry(4, Price(None, Num(10)))>>,
    <<Entry(2, Price(Num(50), Num(40))), Entry(1, Price(Num(100), Num(150))),
      Entry(3, Price(Num(100), Num(150)))>> }

ProjFilters ==
  [skill : {None, Str(S_mining)},
   max_price : {None, Num(0), Num(60), Str(<<"x">>)},
   min_profit_gp : {None, Num(0), Num(20), Str(<<"x">>)},
   min_profit_pct : {None, Num(0), Str(<<"x">>)},
   min_volume : {None, Num(0), Num(DEFAULT_MIN_VOLUME), Str(<<"5">>), Str(<<"x">>)},
   sort : {None, Str(<<"x">>), Str(S_profit), Str(S_profit_pct), Str(S_cost)},
   max_results : {None, Num(-1), Num(0), Num(1), Num(DEFAULT_MAX_RESULTS)},
   search : {Str(<<>>), Str(<<"o">>)},
   volume_mode : {Str(S_hourly), Str(S_daily)}]

ProjInit ==
  /\ _mapping \in MappingFetches
  /\ _latest \in ProjLatest
  /\ _oneh \in OnehFetches
  /\ history = <<>>
  /\ \E f \in ProjFilters :
       \* the task that stored f got past line 223 only if int() took max_results
       LET alive == CanCoerce(f.max_results)
       IN /\ clients = <<Entry(1, f)>>
          /\ wpc = [w \in WS |-> IF w # 1 THEN "new" ELSE IF alive THEN "recv" ELSE "crashed"]
          /\ chan = [w \in WS |-> IF w = 1 /\ ~alive THEN "closed" ELSE "open"]
          /\ cause = [w \in WS |-> IF w = 1 /\ ~alive THEN "invalid_filter" ELSE "none"]
  /\ rpc = "top" /\ cycle = 0 /\ latest_new = <<>>
  /\ todo = <<>> /\ cur = 0 /\ rpayload = Raised
  /\ pending = [w \in WS |-> Raised]
  /\ msgs = [w \in WS |-> IF w = 1 THEN 1 ELSE 0]
  /\ ver = [mapping |-> 0, latest |-> 0, oneh |-> 0]
  /\ pre = EmptyTables
  /\ outcome = "none"
  /\ bstart = <<>> /\ bdelivered = {} /\ bfailed = NoFail
  /\ wire = [w \in WS |-> <<>>]

Project ==
  /\ rpc = "top"
  /\ LET p == BuildPayload(_mapping, _latest, _oneh, FiltersOf(clients, 1))
     IN /\ rpayload' = p
        /\ cur' = 1
        /\ rpc' = IF p = Raised THEN "sleep" ELSE "send"
        /\ wire' = IF p = Raised THEN wire
                   ELSE [wire EXCEPT ![1] = WireWrite(@, "refresher", ver, msgs[1])]
  /\ UNCHANGED <<storeVars, clients, cycle, latest_new, todo, taskVars, chan, ver,
                 cycleHist, bcastHist, cause>>

ProjNext == Project

ProjSpec == ProjInit /\ [][ProjNext]_vars

\* C10: every item of a projection satisfies every bound that the filter
\* config sets to a number, 0 included.
C10_SetBoundsHold ==
  rpc = "send" =>
    LET f == FiltersOf(clients, cur)
    IN \A i \in 1..Len(rpayload.items) :
         LET it == rpayload.items[i]
         IN /\ f.max_price.k = "num" => it.buy <= f.max_price.n
            /\ f.min_profit_gp.k = "num" => it.profit >= f.min_profit_gp.n
            /\ f.min_profit_pct.k = "num" => it.profit_pct >= f.min_profit_pct.n
            /\ f.min_volume.k = "num" => it.volume >= f.min_volume.n

BoundKeys == {"max_price", "min_profit_gp", "min_profit_pct", "min_volume"}

\* A value that is set and that float() does not take
Malformed(v) == Truthy(v) /\ ~CanCoerce(v)

Projected == rpc # "top"

Unset(f, key) == [f EXCEPT ![key] = None]

\* C11: with a malformed value for a numeric bound the
\* projection is the one obtained with that bound unset.
C11_MalformedIsAbsent ==
  Projected =>
    LET f == FiltersOf(clients, 1)
    IN \A key \in BoundKeys :
         Malformed(f[key]) =>
           rpayload = BuildPayload(_mapping, _latest, _oneh, Unset(f, key))

\* C12: for an integer max_results, negative ones included, the result has
\* at most max_results items; with max_results = 0 it is empty.
C12_AtMostMaxResults ==
  rpc = "send" =>
    LET f == FiltersOf(clients, 1)
    IN f.max_results.k = "num" =>
         /\ Len(rpayload.items) <= f.max_results.n
         /\ f.max_results.n = 0 => rpayload.items = <<>>

\* Position of an item in the iteration order of the latest-prices table
PosInLatest(id) == CHOOSE p \in 1..Len(_latest) : _latest[p].k = id

\* a is allowed before b under the sort value s
InOrder(s, a, b) ==
  CASE s = Str(S_cost) -> a.buy <= b.buy
    [] s = Str(S_profit_pct) -> a.profit_pct >= b.profit_pct
    [] OTHER -> a.profit >= b.profit

\* C20: the result is ordered by the selected key (profit descending, also
\* for an absent or unrecognised sort value; profit_pct descending; cost by
\* buy price ascending) and items of equal key keep the iteration order of
\* the latest-prices table.
C20_OrderedBySortKey ==
  rpc = "send" =>
    LET s == FiltersOf(clients, 1).sort
        its == rpayload.items
    IN \A i, j \in 1..Len(its) :
         i < j =>
           /\ InOrder(s, its[i], its[j])
           /\ InOrder(s, its[j], its[i]) =>
                PosInLatest(its[i].id) < PosInLatest(its[j].id)

\* A result sorted by cost holding a tie and a pair the sort has moved
C20_Witness ==
  /\ rpc = "send"
  /\ FiltersOf(clients, 1).sort = Str(S_cost)
  /\ LET its == rpayload.items
     IN /\ \E i, j \in 1..Len(its) : i < j /\ its[i].buy = its[j].buy
        /\ \E i, j \in 1..Len(its) :
             /\ i < j
             /\ its[i].buy < its[j].buy
             /\ PosInLatest(its[i].id) > PosInLatest(its[j].id)

\* C13: after a refresh cycle that succeeded the latest-prices table holds
\* exactly the fetched entries, so an item the fetch no longer lists is gone
\* from the store.
C13_StoreReplacedWholesale ==
  (rpc = "sleep" /\ outcome = "ok") => Range(_latest) = Range(latest_new)

\* The default FilterConfig, spelled out
StatedDefault ==
  [skill |-> None, max_price |-> None, min_profit_gp |-> None,
   min_profit_pct |-> None, min_volume |-> Num(10),
   sort |-> Str(<<"p", "r", "o", "f", "i", "t">>), max_results |-> Num(30),
   search |-> Str(<<>>), volume_mode |-> Str(<<"h", "o", "u", "r", "l", "y">>)]

\* C15: on connect the subscriber is registered with the default config
\* (min volume 10, sort by profit, max results 30, hourly volume, the rest
\* unset) and the projection under that config is what is sent to it first,
\* before any inbound message is processed.
C15_DefaultThenInitialProjection ==
  [][\A w \in WS :
       /\ Connect(w) =>
            /\ FiltersOf(clients', w) = StatedDefault
            /\ wpc'[w] = "send_init"
            /\ pending'[w] = BuildPayload(_mapping, _latest, _oneh, StatedDefault)
            /\ pending'[w].type = "update"
       /\ (TSendOk(w) /\ wpc[w] = "send_init") =>
            /\ msgs[w] = 0
            /\ pending[w].type = "update"
            /\ FiltersOf(clients, w) = StatedDefault
       /\ msgs'[w] > 0 => wpc'[w] \notin {"new", "send_init"}]_vars

\* A first projection with items in it, on its way to a new subscriber
C15_Witness ==
  \E w \in WS :
    /\ wpc[w] = "send_init"
    /\ chan[w] = "open"
    /\ msgs[w] = 0
    /\ pending[w].items # <<>>

\* C14: handling a set_filters message recomputes the subscriber's
\* projection under its updated config and sends it to that subscriber and
\* to no other, in the same step, whatever the refresher is doing.
C14_ImmediateReprojection ==
  [][\A w \in WS : \A text \in Inbound :
       (IsSetFilters(text) /\ RecvTextWith(w, text)) =>
         /\ wpc'[w] = "send_update"
         /\ pending'[w].type = "update"
         /\ pending'[w] = BuildPayload(_mapping, _latest, _oneh, FiltersOf(clients', w))
         /\ \A o \in WS \ {w} : pending'[o] = pending[o] /\ wpc'[o] = wpc[o]
         /\ UNCHANGED refVars]_vars

\* C16: each refresh tick delivers to each subscriber the projection of the
\* current tables under that subscriber's own config (every payload of the
\* broadcast is computed from the config stored for its receiver, and at the
\* end of the tick every subscriber of the broadcast that is registered and
\* connected has been delivered one), and a set_filters by one subscriber
\* leaves the config stored for every other subscriber unchanged.
C16_SubscribersIndependent ==
  [][/\ ((FetchOnehDone \/ RSendOk) /\ rpc' = "send") =>
          rpayload' = BuildPayload(_mapping', _latest', _oneh', FiltersOf(clients, cur'))
     /\ \A w \in WS : \A text \in Inbound :
          (IsSetFilters(text) /\ RecvTextWith(w, text)) =>
            \A o \in WS \ {w} : FiltersOf(clients', o) = FiltersOf(clients, o)
     /\ ((FetchOnehDone \/ RSendOk \/ RSendFail) /\ rpc' = "sleep") =>
          \A w \in Range(bstart') : Healthy(w) => w \in bdelivered']_vars

\* C17: a subscriber that unregisters or registers while the broadcast is
\* suspended in a delivery does not make the broadcast fail, and the
\* broadcast, unless a delivery or a projection of its own failed, has at
\* its end delivered to every subscriber of its point-in-time list that is
\* still registered.
C17_SafeIteration ==
  (rpc = "sleep" /\ outcome \in {"ok", "broadcast_failed"}) =>
    /\ bfailed.why # "keyerror"
    /\ bfailed.why \notin {"send", "payload"} =>
         \A w \in Range(bstart) : w \in KeySet(clients) => w \in bdelivered

\* The refresher under the event loop: a sleep that is due ends, and the
\* loop body is entered again
LiveSpec == Spec /\ WF_vars(SleepDone) /\ WF_vars(BeginCycle)

\* C19: an error raised in a cycle, by a fetch or during the broadcast,
\* takes the refresher to its interval sleep, and from there it starts
\* another cycle.
C19_LoopResumes ==
  /\ [](outcome \in {"fetch_failed", "broadcast_failed"} => rpc = "sleep")
  /\ (outcome \in {"fetch_failed", "broadcast_failed"} /\ cycle < MaxCycles)
       ~> (rpc = "fetch_mapping")

\* A second cycle started after a first one whose fetch had failed
C19_Witness ==
  /\ cycle = 2
  /\ rpc = "fetch_mapping"
  /\ ver.latest = 0

\* The projection stamped a was computed no later than the one stamped b:
\* from tables no newer and a config no newer
NoLater(a, b) ==
  /\ a.ver.mapping <= b.ver.mapping
  /\ a.ver.latest <= b.ver.latest
  /\ a.ver.oneh <= b.ver.oneh
  /\ a.m <= b.m

====
